---- MODULE Spec2Model ----
(***************************************************************************)
(* Model of scraper.py (e-st.lv smart meter scraper): the command line     *)
(* run main(), the ElectricityScraper session (lazy login, fetch with one  *)
(* re-login, close), the URL builder and the response formatter.           *)
(* Text is modelled as sequences of one-character strings so that          *)
(* formatting (str(), %02d, strftime) is computed, not assumed.            *)
(***************************************************************************)
EXTENDS Integers, Sequences, FiniteSets, TLC

VARIABLES
    environ,        \* os.environ restricted to the four EST_* variables
    args,           \* argparse namespace
    mpc,            \* position of main()
    missing_vars,   \* main's list of missing variables
    scraper,        \* None, or "made" once ElectricityScraper(...) was constructed
    driver,         \* self.driver: None or "open"
    created,        \* number of webdriver.Chrome() sessions created
    quits,          \* number of driver.quit() calls
    authed,         \* a _login on the current driver returned True
    fpc,            \* position of the current get_*_data/_fetch_remote_data call
    kw,             \* arguments of the current get_*_data call
    url,            \* params of the data URL built by _get_data_url
    page,           \* what the browser shows after the last driver.get(url)
    landed,         \* where each driver.get(url) of the current call landed
    trace,          \* logins and navigations of the current call, in order
    payload,        \* json.loads(data_values) returned by _fetch_remote_data
    data,           \* result of get_*_data
    error,          \* exception propagating out of the current call / main
    auto_filename,  \* main's auto_filename
    output,         \* what was written to the output file
    exit_code,      \* process outcome, None while running
    clock,          \* the date datetime.now() shows
    ticks,          \* number of midnights passed during the run
    shown,          \* the dates the clock has shown so far
    calls           \* number of get_*_data calls made on the scraper

vars == <<environ, args, mpc, missing_vars, scraper, driver, created, quits,
          authed, fpc, kw, url, page, landed, trace, payload, data, error,
          auto_filename, output, exit_code, clock, ticks, shown, calls>>

None == "None"             \* Python None in a slot holding a name
NoneInt == 0 - 1           \* Python None in a slot holding an int
NoneText == <<"None">>     \* Python None in a slot holding text

(* Bounds of the model *)
MaxLen == 2        \* longest consumption / production series
MaxTicks == 2      \* midnights the clock may cross during one run
MaxCalls == 2      \* get_*_data calls on one scraper

(* Class constants, scraper.py:36-41 *)
PERIOD_DAY == <<"D">>
PERIOD_MONTH == <<"M">>
PERIOD_YEAR == <<"Y">>
GRANULARITY_HOUR == <<"H">>
GRANULARITY_DAY == <<"D">>

----------------------------------------------------------------------------
(* Text helpers *)

Digits == <<"0", "1", "2", "3", "4", "5", "6", "7", "8", "9">>

RECURSIVE str(_)
\* Python str(n) / f'{n}' of a non-negative int
str(n) == IF n < 10 THEN <<Digits[n + 1]>>
          ELSE str(n \div 10) \o <<Digits[(n % 10) + 1]>>

RECURSIVE zfill(_, _)
\* left-pad with zeros to width w
zfill(s, w) == IF Len(s) >= w THEN s ELSE zfill(<<"0">> \o s, w)

\* f'{n:02d}'
fmt02d(n) == zfill(str(n), 2)

DigitValue(c) == CHOOSE i \in 0..9 : Digits[i + 1] = c

IsDigit(c) == \E i \in 1..10 : Digits[i] = c

RECURSIVE int(_)
\* Python int(s) of a string of decimal digits
int(s) == IF Len(s) = 0 THEN 0
          ELSE 10 * int(SubSeq(s, 1, Len(s) - 1)) + DigitValue(s[Len(s)])

\* Python truthiness of an optional int: None and 0 are false
TruthyInt(x) == x # NoneInt /\ x # 0

\* Python truthiness of an optional str: None and '' are false
TruthyText(x) == x # NoneText /\ x # <<>>

\* str(x) of an optional str, as urlencode applies it
pystr(x) == IF x = NoneText THEN <<"N", "o", "n", "e">> ELSE x

RECURSIVE quote_plus(_)
\* urllib.parse.quote_plus over the characters used here: letters, digits,
\* '.', '-' and '_' are kept, ' ' becomes '+', '@' is percent-encoded
quote_plus(s) ==
    IF s = <<>> THEN <<>>
    ELSE (IF Head(s) = " " THEN <<"+">>
          ELSE IF Head(s) = "@" THEN <<"%", "4", "0">>
          ELSE <<Head(s)>>) \o quote_plus(Tail(s))

Range(s) == {s[i] : i \in 1..Len(s)}

Max(S) == CHOOSE x \in S : \A y \in S : y <= x

----------------------------------------------------------------------------
(* Calendar *)

IsLeap(y) == (y % 4 = 0 /\ y % 100 # 0) \/ y % 400 = 0

DaysIn(y, m) == IF m = 2 THEN (IF IsLeap(y) THEN 29 ELSE 28)
                ELSE IF m \in {4, 6, 9, 11} THEN 30 ELSE 31

NextDay(d) ==
    IF d.day < DaysIn(d.year, d.month) THEN [d EXCEPT !.day = d.day + 1]
    ELSE IF d.month < 12 THEN [year |-> d.year, month |-> d.month + 1, day |-> 1]
    ELSE [year |-> d.year + 1, month |-> 1, day |-> 1]

RECURSIVE AddDays(_, _)
AddDays(d, n) == IF n = 0 THEN d ELSE AddDays(NextDay(d), n - 1)

\* the dict returned by _get_current_date when the clock shows date d
get_current_date(d) ==
    [year |-> zfill(str(d.year), 4), month |-> zfill(str(d.month), 2),
     day |-> zfill(str(d.day), 2)]

----------------------------------------------------------------------------
(* _format_timestamp and _format_response *)

Epoch == [year |-> 1970, month |-> 1, day |-> 1]

\* datetime.fromtimestamp(int(ts)/1000.0, tz=UTC).strftime('%Y-%m-%d %H:%M:%S')
format_timestamp(timestamp) ==
    LET secs == timestamp \div 1000
        d == AddDays(Epoch, secs \div 86400)
        sod == secs % 86400
    IN zfill(str(d.year), 4) \o <<"-">> \o fmt02d(d.month) \o <<"-">> \o fmt02d(d.day)
       \o <<" ">> \o fmt02d(sod \div 3600) \o <<":">> \o fmt02d((sod % 3600) \div 60)
       \o <<":">> \o fmt02d(sod % 60)

\* production_map.get(timestamp, 0) where production_map was filled from
\* series in order (a later entry overwrites an earlier one)
production_get(series, timestamp) ==
    LET idx == {i \in 1..Len(series) : series[i].timestamp = timestamp}
    IN IF idx = {} THEN 0 ELSE series[Max(idx)].value

\* mutant: the inclusion flag is not forced off / the join ignores the timestamp
format_response_nojoin(response_data, neto) ==
    LET response_cons_data == response_data.values["A+"].total.data
        neto2 == IF "A-" \in DOMAIN response_data.values THEN neto ELSE FALSE
        response_neto_data == IF neto2 THEN response_data.values["A-"].total.data ELSE <<>>
        date_str(ts) == LET s == format_timestamp(ts) IN SubSeq(s, 1, Len(s) - 3)
    IN [i \in 1..Len(response_cons_data) |->
          IF neto2
          THEN [date |-> date_str(response_cons_data[i].timestamp),
                consumption |-> response_cons_data[i].value,
                production |-> IF i <= Len(response_neto_data)
                               THEN response_neto_data[i].value ELSE 0]
          ELSE [date |-> date_str(response_cons_data[i].timestamp),
                consumption |-> response_cons_data[i].value]]

format_response(response_data, neto) ==
    LET response_cons_data == response_data.values["A+"].total.data
        neto2 == IF "A-" \in DOMAIN response_data.values THEN neto ELSE FALSE
        response_neto_data == IF neto2 THEN response_data.values["A-"].total.data ELSE <<>>
        date_str(ts) == LET s == format_timestamp(ts) IN SubSeq(s, 1, Len(s) - 3)
    IN [i \in 1..Len(response_cons_data) |->
          IF neto2
          THEN [date |-> date_str(response_cons_data[i].timestamp),
                consumption |-> response_cons_data[i].value,
                production |-> production_get(response_neto_data,
                                              response_cons_data[i].timestamp)]
          ELSE [date |-> date_str(response_cons_data[i].timestamp),
                consumption |-> response_cons_data[i].value]]

----------------------------------------------------------------------------
(* _get_data_url and the three get_*_data wrappers *)

Param(k, v) == [k |-> k, v |-> quote_plus(v)]

\* _get_data_url(**k) for self.object_id = oid, self.meter_id = mid.  n1, n2, n3
\* are the dates shown by the clock at the (up to three) _get_current_date()
\* calls, in the order the code makes them: year, month, day.  A supplied int
\* reaches urlencode / the f-string as str(int), a defaulted one as strftime text.
get_data_url(oid, mid, k, n1, n2, n3) ==
    LET params == <<Param("objectEic", oid), Param("counterNumber", mid),
                    Param("period", pystr(k.period))>>
        year == IF TruthyInt(k.year) THEN str(k.year) ELSE get_current_date(n1).year
        month == IF TruthyInt(k.month) THEN str(k.month) ELSE get_current_date(n2).month
        day == IF TruthyInt(k.day) THEN str(k.day) ELSE get_current_date(n3).day
    IN IF k.period = PERIOD_YEAR THEN params \o <<Param("year", year)>>
       ELSE IF k.period = PERIOD_MONTH
       THEN params \o <<Param("year", year), Param("month", month),
                        Param("granularity", pystr(k.granularity))>>
       ELSE IF k.period = PERIOD_DAY
       THEN params \o <<Param("date", day \o <<".">> \o month \o <<".">> \o year),
                        Param("granularity", pystr(k.granularity))>>
       ELSE params

\* the keyword arguments get_day_data hands to _fetch_remote_data
get_day_data(neto, year, month, day) ==
    [period |-> PERIOD_DAY, year |-> year, month |-> month, day |-> day,
     granularity |-> GRANULARITY_HOUR, neto |-> neto]

\* mutant: the daily default of get_month_data is dropped
get_month_data_nodefault(neto, year, month, granularity) ==
    [period |-> PERIOD_MONTH, year |-> year, month |-> month, day |-> NoneInt,
     granularity |-> granularity, neto |-> neto]

get_month_data(neto, year, month, granularity) ==
    [period |-> PERIOD_MONTH, year |-> year, month |-> month, day |-> NoneInt,
     granularity |-> IF TruthyText(granularity) THEN granularity ELSE GRANULARITY_DAY,
     neto |-> neto]

get_year_data(neto, year) ==
    [period |-> PERIOD_YEAR, year |-> year, month |-> NoneInt, day |-> NoneInt,
     granularity |-> NoneText, neto |-> neto]

NoCall == [period |-> NoneText, year |-> NoneInt, month |-> NoneInt, day |-> NoneInt,
           granularity |-> NoneText, neto |-> TRUE]

----------------------------------------------------------------------------
(* Inputs *)

Creds == <<"EST_USERNAME", "EST_PASSWORD", "EST_OBJECT_ID", "EST_METER_ID">>

\* a variable is unset (os.getenv gives None), empty, or has a value
EnvValues == {NoneText, <<>>, <<"7">>}

Years == {NoneInt, 2025}
Months == {NoneInt, 9, 12}
Days == {NoneInt, 5, 31}
Granularities == {NoneText, GRANULARITY_DAY, GRANULARITY_HOUR}
Outfiles == {NoneText, <<"o">>}

\* the namespaces parse_args can return; --neto is store_true with default True
Args == [period : {"day", "month", "year"}, year : Years, month : Months, day : Days,
         granularity : Granularities, neto : {TRUE}, outfile : Outfiles]

StartDates == {[year |-> 2025, month |-> 9, day |-> 5],
               [year |-> 2025, month |-> 12, day |-> 31]}

\* what the browser can show after driver.get(url): the address it ended on and
\* the div.chart element of the page.  The portal's login page carries the
\* login form and no chart.
Pages == {[url |-> "login", chart |-> "none"]}
         \cup [url : {"data"}, chart : {"data", "badjson", "empty", "none"}]

NoPage == [url |-> "blank", chart |-> "none"]

Entry(t, v) == [timestamp |-> t, value |-> v]

Chart(cons) == [values |-> ("A+" :> [total |-> [data |-> cons]])]

ChartNeto(cons, prod) ==
    [values |-> ("A+" :> [total |-> [data |-> cons]]) @@ ("A-" :> [total |-> [data |-> prod]])]

\* the documents json.loads can return in a run of main: with and without a
\* production series, and one without the expected 'A+' entry
MainPayloads ==
    {Chart(<<Entry(0, 5), Entry(3600000, 7)>>),
     ChartNeto(<<Entry(0, 5), Entry(3600000, 7)>>, <<Entry(0, 2)>>),
     [values |-> ("B" :> [total |-> [data |-> <<>>]])]}

NoPayload == [values |-> ("B" :> [total |-> [data |-> <<>>]])]

NoOutput == [written |-> FALSE, content |-> <<>>]

envVars == <<environ, args>>
mainVars == <<mpc, missing_vars, scraper, auto_filename, output, exit_code>>
sessVars == <<driver, created, quits, authed>>
callVars == <<fpc, kw, url, page, landed, trace, payload, data, error>>
clockVars == <<clock, ticks, shown>>

----------------------------------------------------------------------------
(* The session: _init_driver, _login, close *)

Session == [driver |-> driver, created |-> created, authed |-> authed]

\* what can happen in _login: the form is submitted ("ok", returns True), the
\* form never appears ("timeout", returns False), another exception escapes
\* after the browser exists ("error"), or webdriver.Chrome() itself fails
LoginOutcomes(s) == IF s.driver = None THEN {"ok", "timeout", "error", "no_browser"}
                    ELSE {"ok", "timeout", "error"}

\* _init_driver: nothing if a driver exists, else a new browser session
init_driver(o, s) ==
    IF s.driver # None \/ o = "no_browser" THEN s
    ELSE [driver |-> "open", created |-> s.created + 1, authed |-> FALSE]

\* _login with outcome o from session s: the session after it, what it
\* returned and the event logged
login(o, s) ==
    LET s1 == init_driver(o, s)
    IN [driver |-> s1.driver, created |-> s1.created,
        authed |-> s1.authed \/ o = "ok",
        ret |-> IF o = "ok" THEN "True" ELSE IF o = "timeout" THEN "False" ELSE "raise",
        event |-> "login_" \o o]

\* mutant: close forgets the browser without quitting it
close_noquit ==
    /\ driver' = None
    /\ authed' = FALSE
    /\ UNCHANGED <<created, quits>>

\* close(): quit the browser if there is one
close ==
    /\ IF driver # None
       THEN quits' = quits + 1 /\ driver' = None /\ authed' = FALSE
       ELSE UNCHANGED <<quits, driver, authed>>
    /\ UNCHANGED created

----------------------------------------------------------------------------
(* One get_*_data call: _fetch_remote_data, then _format_response *)

\* _fetch_remote_data, lines 239-241: log in only if there is no driver
FetchLogin ==
    /\ fpc = "start"
    /\ IF driver = None
       THEN \E o \in LoginOutcomes(Session) :
              LET r == login(o, Session)
              IN /\ driver' = r.driver
                 /\ created' = r.created
                 /\ authed' = r.authed
                 /\ trace' = Append(trace, r.event)
                 /\ IF r.ret = "True" THEN fpc' = "navigate" /\ error' = None
                    ELSE IF r.ret = "False"
                    THEN fpc' = "raised" /\ error' = "Login failed"
                    ELSE fpc' = "raised" /\ error' = "WebDriverException"
       ELSE /\ fpc' = "navigate"
            /\ UNCHANGED <<driver, created, authed, trace, error>>
    /\ UNCHANGED <<envVars, mainVars, quits, kw, url, page, landed, payload, data,
                   clockVars, calls>>

\* lines 244-249: build the URL (reading the clock for omitted components)
\* and navigate to it
FetchNavigate ==
    /\ fpc = "navigate"
    /\ \E k1, k2, k3 \in 0..1 :
         LET n1 == AddDays(clock, k1)
             n2 == AddDays(n1, k2)
             n3 == AddDays(n2, k3)
         IN /\ ticks + k1 + k2 + k3 <= MaxTicks
            /\ url' = get_data_url(environ["EST_OBJECT_ID"], environ["EST_METER_ID"],
                                   kw, n1, n2, n3)
            /\ clock' = n3
            /\ ticks' = ticks + k1 + k2 + k3
            /\ shown' = shown \cup {n1, n2, n3}
    /\ \E p \in Pages :
         /\ page' = p
         /\ landed' = Append(landed, p.url)
    /\ trace' = Append(trace, IF authed THEN "get_authed" ELSE "get_unauthed")
    /\ fpc' = "redirect"
    /\ UNCHANGED <<envVars, mainVars, sessVars, kw, payload, data, error, calls>>

\* mutant: the re-login is attempted whatever page the navigation reached
FetchRelogin_always ==
    /\ fpc = "redirect"
    /\ \E o \in LoginOutcomes(Session) :
         LET r == login(o, Session)
         IN /\ authed' = r.authed
            /\ IF r.ret = "raise"
               THEN /\ fpc' = "raised"
                    /\ error' = "WebDriverException"
                    /\ trace' = Append(trace, r.event)
                    /\ UNCHANGED <<page, landed>>
               ELSE /\ \E p \in Pages :
                         /\ page' = p
                         /\ landed' = Append(landed, p.url)
                    /\ trace' = trace \o <<r.event,
                                  IF r.authed THEN "get_authed" ELSE "get_unauthed">>
                    /\ fpc' = "chart"
                    /\ UNCHANGED error
    /\ UNCHANGED <<envVars, mainVars, driver, created, quits, kw, url, payload, data,
                   clockVars, calls>>

\* lines 251-256: if the browser ended on the login page, _login() again (its
\* result is not looked at) and navigate to the URL a second time
FetchRelogin ==
    /\ fpc = "redirect"
    /\ IF page.url = "login"
       THEN \E o \in LoginOutcomes(Session) :
              LET r == login(o, Session)
              IN /\ authed' = r.authed
                 /\ IF r.ret = "raise"
                    THEN /\ fpc' = "raised"
                         /\ error' = "WebDriverException"
                         /\ trace' = Append(trace, r.event)
                         /\ UNCHANGED <<page, landed>>
                    ELSE /\ \E p \in Pages :
                              /\ page' = p
                              /\ landed' = Append(landed, p.url)
                         /\ trace' = trace \o <<r.event,
                                       IF r.authed THEN "get_authed" ELSE "get_unauthed">>
                         /\ fpc' = "chart"
                         /\ UNCHANGED error
       ELSE /\ fpc' = "chart"
            /\ UNCHANGED <<authed, trace, page, landed, error>>
    /\ UNCHANGED <<envVars, mainVars, driver, created, quits, kw, url, payload, data,
                   clockVars, calls>>

\* lines 258-277: wait for div.chart, read data-values, parse it
FetchChart ==
    /\ fpc = "chart"
    /\ IF page.chart = "data"
       THEN /\ payload' \in MainPayloads
            /\ fpc' = "returned"
            /\ UNCHANGED error
       ELSE /\ fpc' = "raised"
            /\ error' = (IF page.chart = "badjson" THEN "JSONDecodeError"
                         ELSE IF page.chart = "empty" THEN "Chart data not found"
                         ELSE "Chart element not found")
            /\ UNCHANGED payload
    /\ UNCHANGED <<envVars, mainVars, sessVars, kw, url, page, landed, trace, data,
                   clockVars, calls>>

\* lines 288 / 298 / 303: return self._format_response(response, neto)
GetDataReturn ==
    /\ fpc = "returned"
    /\ IF "A+" \in DOMAIN payload.values
       THEN /\ data' = format_response(payload, kw.neto)
            /\ fpc' = "done"
            /\ UNCHANGED error
       ELSE /\ fpc' = "raised"
            /\ error' = "KeyError"
            /\ UNCHANGED data
    /\ UNCHANGED <<envVars, mainVars, sessVars, kw, url, page, landed, trace, payload,
                   clockVars, calls>>

Fetch == FetchLogin \/ FetchNavigate \/ FetchRelogin \/ FetchChart \/ GetDataReturn

----------------------------------------------------------------------------
(* main() *)

\* mutant: only the first missing variable is reported
MissingVars_first(env) ==
    LET all == SelectSeq(Creds, LAMBDA c : ~TruthyText(env[c]))
    IN IF all = <<>> THEN <<>> ELSE <<Head(all)>>

\* lines 361-369: the variables that are unset or empty, in the order checked
MissingVars(env) == SelectSeq(Creds, LAMBDA c : ~TruthyText(env[c]))

\* lines 355-390: report missing variables and return, or construct the scraper
MainCheckCredentials ==
    /\ mpc = "start"
    /\ missing_vars' = MissingVars(environ)
    /\ IF missing_vars' # <<>>
       THEN /\ mpc' = "exited"
            /\ exit_code' = 0
            /\ UNCHANGED scraper
       ELSE /\ mpc' = "with"
            /\ scraper' = "made"
            /\ UNCHANGED exit_code
    /\ UNCHANGED <<envVars, auto_filename, output, sessVars, callVars, clockVars, calls>>

\* lines 392-402: the get_*_data call for the requested period
MainGetData ==
    /\ mpc = "with"
    /\ kw' = (IF args.period = "year" THEN get_year_data(args.neto, args.year)
              ELSE IF args.period = "month"
              THEN get_month_data(args.neto, args.year, args.month, args.granularity)
              ELSE get_day_data(args.neto, args.year, args.month, args.day))
    /\ fpc' = "start"
    /\ calls' = calls + 1
    /\ mpc' = "await"
    /\ UNCHANGED <<envVars, missing_vars, scraper, auto_filename, output, exit_code,
                   sessVars, url, page, landed, trace, payload, data, error, clockVars>>

\* lines 394-406: auto_filename from the arguments and datetime.now(), read
\* once per omitted component at dates n1, n2, n3
AutoFilename(a, n1, n2, n3) ==
    LET year_val == IF TruthyInt(a.year) THEN a.year ELSE n1.year
        month_val == IF TruthyInt(a.month) THEN a.month ELSE n2.month
        day_val == IF TruthyInt(a.day) THEN a.day ELSE n3.day
        st == <<"s", "t", "_">>
        json == <<".", "j", "s", "o", "n">>
    IN IF a.period = "year" THEN st \o str(year_val) \o json
       ELSE IF a.period = "month" THEN st \o str(year_val) \o fmt02d(month_val) \o json
       ELSE st \o str(year_val) \o fmt02d(month_val) \o fmt02d(day_val) \o json

\* lines 394-415: name the output file and dump the data into it
MainOutput ==
    /\ mpc = "await"
    /\ fpc = "done"
    /\ \E k1, k2, k3 \in 0..1 :
         LET n1 == AddDays(clock, k1)
             n2 == AddDays(n1, k2)
             n3 == AddDays(n2, k3)
         IN /\ ticks + k1 + k2 + k3 <= MaxTicks
            /\ auto_filename' = AutoFilename(args, n1, n2, n3)
            /\ clock' = n3
            /\ ticks' = ticks + k1 + k2 + k3
            /\ shown' = shown \cup {n1, n2, n3}
    /\ \E w \in {"ok", "OSError"} :
         IF w = "ok"
         THEN output' = [written |-> TRUE, content |-> data] /\ UNCHANGED error
         ELSE error' = w /\ UNCHANGED output
    /\ mpc' = "exit"
    /\ UNCHANGED <<envVars, missing_vars, scraper, exit_code, sessVars, fpc, kw, url,
                   page, landed, trace, payload, data, calls>>

\* lines 315-317 and the end of main: __exit__ closes the scraper, then main
\* returns (exit status 0) or the exception ends the process (exit status 1)
MainExit ==
    /\ mpc = "exit" \/ (mpc = "await" /\ fpc = "raised")
    /\ close
    /\ exit_code' = (IF error = None THEN 0 ELSE 1)
    /\ mpc' = "exited"
    /\ UNCHANGED <<envVars, missing_vars, scraper, auto_filename, output, callVars,
                   clockVars, calls>>

Init ==
    /\ environ \in [Range(Creds) -> EnvValues]
    /\ args \in Args
    /\ mpc = "start"
    /\ missing_vars = <<>>
    /\ scraper = None
    /\ driver = None
    /\ created = 0
    /\ quits = 0
    /\ authed = FALSE
    /\ fpc = "idle"
    /\ kw = NoCall
    /\ url = <<>>
    /\ page = NoPage
    /\ landed = <<>>
    /\ trace = <<>>
    /\ payload = NoPayload
    /\ data = <<>>
    /\ error = None
    /\ auto_filename = <<>>
    /\ output = NoOutput
    /\ exit_code = NoneInt
    /\ clock \in StartDates
    /\ ticks = 0
    /\ shown = {clock}
    /\ calls = 0

Next == MainCheckCredentials \/ MainGetData \/ FetchLogin \/ FetchNavigate
        \/ FetchRelogin \/ FetchChart \/ GetDataReturn \/ MainOutput \/ MainExit

Spec == Init /\ [][Next]_vars

----------------------------------------------------------------------------
(* A program that uses one ElectricityScraper directly: any sequence of     *)
(* get_*_data and close calls                                               *)

\* the calls the user makes
ApiCalls == {get_day_data(TRUE, NoneInt, NoneInt, NoneInt),
             get_month_data(FALSE, 2025, 9, NoneText),
             get_year_data(TRUE, 2025)}

ApiInit ==
    /\ environ = [c \in Range(Creds) |-> <<"7">>]
    /\ args = [period |-> "month", year |-> NoneInt, month |-> NoneInt, day |-> NoneInt,
               granularity |-> NoneText, neto |-> TRUE, outfile |-> NoneText]
    /\ mpc = "api"
    /\ missing_vars = <<>>
    /\ scraper = "made"
    /\ driver = None
    /\ created = 0
    /\ quits = 0
    /\ authed = FALSE
    /\ fpc = "idle"
    /\ kw = NoCall
    /\ url = <<>>
    /\ page = NoPage
    /\ landed = <<>>
    /\ trace = <<>>
    /\ payload = NoPayload
    /\ data = <<>>
    /\ error = None
    /\ auto_filename = <<>>
    /\ output = NoOutput
    /\ exit_code = NoneInt
    /\ clock \in StartDates
    /\ ticks = 0
    /\ shown = {clock}
    /\ calls = 0

\* scraper.get_day_data(...) / get_month_data(...) / get_year_data(...)
ApiCall ==
    /\ mpc = "api"
    /\ fpc \in {"idle", "done", "raised"}
    /\ calls < MaxCalls
    /\ kw' \in ApiCalls
    /\ fpc' = "start"
    /\ calls' = calls + 1
    /\ url' = <<>>
    /\ landed' = <<>>
    /\ trace' = <<>>
    /\ data' = <<>>
    /\ error' = None
    /\ UNCHANGED <<envVars, mainVars, sessVars, page, payload, clockVars>>

\* scraper.close()
ApiClose ==
    /\ mpc = "api"
    /\ fpc \in {"done", "raised"}
    /\ driver # None
    /\ close
    /\ UNCHANGED <<envVars, mainVars, callVars, clockVars, calls>>

ApiNext == ApiCall \/ ApiClose \/ FetchLogin \/ FetchNavigate \/ FetchRelogin
           \/ FetchChart \/ GetDataReturn

ApiSpec == ApiInit /\ [][ApiNext]_vars

ApiFairSpec == ApiSpec /\ WF_vars(Fetch)

----------------------------------------------------------------------------
(* _format_response applied to every payload up to MaxLen entries           *)

Timestamps == {0, 3599999, 90061000}

Series(values) ==
    UNION {[1..n -> {Entry(t, v) : t \in Timestamps, v \in values}] : n \in 0..MaxLen}

Payloads == {Chart(c) : c \in Series({5, 7})}
            \cup {ChartNeto(c, p) : c \in Series({5, 7}), p \in Series({0, 2})}

FmtInit ==
    /\ environ = [c \in Range(Creds) |-> <<"7">>]
    /\ args = [period |-> "month", year |-> NoneInt, month |-> NoneInt, day |-> NoneInt,
               granularity |-> NoneText, neto |-> TRUE, outfile |-> NoneText]
    /\ mpc = "api"
    /\ missing_vars = <<>>
    /\ scraper = "made"
    /\ driver = "open"
    /\ created = 1
    /\ quits = 0
    /\ authed = TRUE
    /\ fpc = "returned"
    /\ \E n \in BOOLEAN : kw = get_year_data(n, 2025)
    /\ url = <<>>
    /\ page = [url |-> "data", chart |-> "data"]
    /\ landed = <<"data">>
    /\ trace = <<"login_ok", "get_authed">>
    /\ payload \in Payloads
    /\ data = <<>>
    /\ error = None
    /\ auto_filename = <<>>
    /\ output = NoOutput
    /\ exit_code = NoneInt
    /\ clock \in StartDates
    /\ ticks = 0
    /\ shown = {clock}
    /\ calls = 1

FmtNext == GetDataReturn

FmtSpec == FmtInit /\ [][FmtNext]_vars

----------------------------------------------------------------------------
(* Properties *)

UrlKeys == [i \in 1..Len(url) |-> url[i].k]

UrlValue(k) == url[CHOOSE i \in 1..Len(url) : url[i].k = k].v

Min(S) == CHOOSE x \in S : \A y \in S : x <= y

\* the three dot-separated fields of a date parameter
DateFields(s) ==
    LET dots == {i \in 1..Len(s) : s[i] = "."}
    IN <<SubSeq(s, 1, Min(dots) - 1), SubSeq(s, Min(dots) + 1, Max(dots) - 1),
         SubSeq(s, Max(dots) + 1, Len(s))>>

LoginEvents == {"login_ok", "login_timeout", "login_error", "login_no_browser"}
Gets == {i \in 1..Len(trace) : trace[i] \in {"get_authed", "get_unauthed"}}
Relogins == {i \in 1..Len(trace) : trace[i] \in LoginEvents /\ \E j \in Gets : j < i}

\* C1: when main() is left after constructing a scraper, no browser session is
\* open: self.driver is None, and if a driver was created, quit() was called
\* exactly once.
C1_SessionReleased ==
    (mpc = "exited" /\ scraper = "made") =>
        /\ driver = None
        /\ created <= 1
        /\ quits = created

C1_Witness ==
    /\ mpc = "exited"
    /\ created = 1
    /\ quits = 1
    /\ driver = None
    /\ error = "Chart element not found"

\* C2: every run of main() either writes the complete formatted data, or
\* writes nothing and ends with a non-zero exit status.
C2_AllOrNothing ==
    mpc = "exited" =>
        \/ output.written /\ fpc = "done" /\ output.content = data
        \/ ~output.written /\ exit_code # 0

\* C3: the reported missing variables are exactly the unset or empty ones; if
\* there are any, main() ends without a scraper, a driver or a navigation, and
\* otherwise the scraper is constructed.
C3_MissingCredentials ==
    LET unset == {c \in Range(Creds) : environ[c] = NoneText \/ environ[c] = <<>>}
    IN mpc # "start" =>
        /\ Range(missing_vars) = unset
        /\ Len(missing_vars) = Cardinality(unset)
        /\ unset # {} => /\ mpc = "exited"
                         /\ scraper = None
                         /\ created = 0
                         /\ calls = 0
                         /\ trace = <<>>
                         /\ url = <<>>
        /\ unset = {} => scraper = "made"

C3_Witness ==
    /\ mpc = "exited"
    /\ missing_vars = <<"EST_PASSWORD", "EST_METER_ID">>
    /\ environ["EST_PASSWORD"] = NoneText
    /\ environ["EST_METER_ID"] = <<>>
    /\ scraper = None

\* C4: _format_response gives one record per consumption entry, in order, with
\* that entry's minute-precision date and value; a record has a production key
\* iff inclusion was requested and the payload has a production series, and
\* then it is the value of a production entry with the same timestamp, or 0
\* when there is none.
C4_FormatResponse ==
    (fpc = "done" /\ "A+" \in DOMAIN payload.values) =>
        LET cons == payload.values["A+"].total.data
            incl == kw.neto /\ "A-" \in DOMAIN payload.values
        IN /\ Len(data) = Len(cons)
           /\ \A i \in 1..Len(cons) :
                /\ data[i].date = SubSeq(format_timestamp(cons[i].timestamp), 1, 16)
                /\ data[i].consumption = cons[i].value
                /\ ("production" \in DOMAIN data[i]) <=> incl
                /\ incl =>
                     LET prod == payload.values["A-"].total.data
                         same == {j \in 1..Len(prod) :
                                    prod[j].timestamp = cons[i].timestamp}
                     IN IF same = {} THEN data[i].production = 0
                        ELSE \E j \in same : data[i].production = prod[j].value

C4_Witness ==
    /\ fpc = "done"
    /\ payload = ChartNeto(<<Entry(0, 5), Entry(3599999, 7)>>, <<Entry(3599999, 2)>>)
    /\ kw.neto
    /\ data = <<[date |-> <<"1","9","7","0","-","0","1","-","0","1"," ","0","0",":","0","0">>,
                 consumption |-> 5, production |-> 0],
                [date |-> <<"1","9","7","0","-","0","1","-","0","1"," ","0","0",":","5","9">>,
                 consumption |-> 7, production |-> 2]>>

\* C5: besides objectEic, counterNumber and period, the query holds only year
\* for a year period; year, month and granularity (D when none was supplied)
\* for a month period; date and granularity (H when none was supplied) for a
\* day period.
C5_UrlParameters ==
    url # <<>> =>
        /\ Len(url) >= 3
        /\ SubSeq(UrlKeys, 1, 3) = <<"objectEic", "counterNumber", "period">>
        /\ UrlValue("objectEic") = environ["EST_OBJECT_ID"]
        /\ UrlValue("counterNumber") = environ["EST_METER_ID"]
        /\ IF args.period = "year"
           THEN /\ UrlValue("period") = <<"Y">>
                /\ SubSeq(UrlKeys, 4, Len(url)) = <<"year">>
           ELSE IF args.period = "month"
           THEN /\ UrlValue("period") = <<"M">>
                /\ SubSeq(UrlKeys, 4, Len(url)) = <<"year", "month", "granularity">>
                /\ UrlValue("granularity") =
                     (IF args.granularity = NoneText THEN <<"D">> ELSE args.granularity)
           ELSE /\ UrlValue("period") = <<"D">>
                /\ SubSeq(UrlKeys, 4, Len(url)) = <<"date", "granularity">>
                /\ args.granularity = NoneText => UrlValue("granularity") = <<"H">>

C5_Witness ==
    /\ url # <<>>
    /\ args.period = "month"
    /\ args.granularity = NoneText
    /\ UrlKeys = <<"objectEic", "counterNumber", "period", "year", "month", "granularity">>
    /\ UrlValue("granularity") = <<"D">>

\* C6: the date parameter of a day query has the form DD.MM.YYYY, whether the
\* components were supplied or defaulted.
C6_DateFormat ==
    (url # <<>> /\ kw.period = PERIOD_DAY) =>
        LET d == UrlValue("date")
        IN /\ Len(d) = 10
           /\ \A i \in 1..Len(d) : IF i \in {3, 6} THEN d[i] = "." ELSE IsDigit(d[i])

\* C7: every navigation to the data URL happens on a browser session on which
\* a login was submitted successfully.
C7_NavigateOnlyLoggedIn == \A i \in 1..Len(trace) : trace[i] # "get_unauthed"

\* C8: once _login has returned False in a fetch, the call raises, returns no
\* data and does not navigate to the data URL again.
C8_LoginTimeoutFatal ==
    (\E i \in 1..Len(trace) : trace[i] = "login_timeout") =>
        /\ fpc = "raised"
        /\ trace[Len(trace)] = "login_timeout"

\* the safety part of C9: at most two navigations and one re-login per call,
\* the re-login only after a first landing on the login page, and no way on
\* but the chart wait and its error after a second landing there
C9_Bounded ==
    /\ Cardinality(Gets) <= 2
    /\ Len(landed) = Cardinality(Gets)
    /\ Cardinality(Relogins) <= 1
    /\ Relogins # {} => landed[1] = "login"
    /\ (Len(landed) = 2 /\ landed[2] = "login") => fpc \in {"chart", "raised"}

C10_ConsistentNow ==
    (mpc \in {"exit", "exited"} /\ auto_filename # <<>>) =>
        LET f == IF kw.period = PERIOD_DAY THEN DateFields(UrlValue("date")) ELSE <<>>
            uy == IF kw.period = PERIOD_DAY THEN int(f[3]) ELSE int(UrlValue("year"))
            um == IF kw.period = PERIOD_DAY THEN int(f[2])
                  ELSE IF kw.period = PERIOD_MONTH THEN int(UrlValue("month")) ELSE 0
            ud == IF kw.period = PERIOD_DAY THEN int(f[1]) ELSE 0
            u == [year |-> uy, month |-> um, day |-> ud]
        IN /\ \E d \in shown :
                /\ ~TruthyInt(kw.year) => uy = d.year
                /\ (kw.period # PERIOD_YEAR /\ ~TruthyInt(kw.month)) => um = d.month
                /\ (kw.period = PERIOD_DAY /\ ~TruthyInt(kw.day)) => ud = d.day
           /\ auto_filename = AutoFilename([args EXCEPT !.year = NoneInt, !.month = NoneInt,
                                                          !.day = NoneInt], u, u, u)

====
